---- MODULE Spec2Model ----
(***************************************************************************)
(* Model of sage/categories/examples/finite_coxeter_groups.py: the n-th    *)
(* dihedral group of order 2n, whose elements are stored as reduced words  *)
(* over the index set (1, 2).                                              *)
(*                                                                         *)
(* A Python tuple is a TLA+ sequence: word[0] is word[1] here, word[-1] is *)
(* word[Len(word)], word[:-1] is SubSeq(word, 1, Len(word) - 1) and        *)
(* word[1:] is SubSeq(word, 2, Len(word)).                                 *)
(***************************************************************************)
EXTENDS Integers, Sequences, FiniteSets, TLC

VARIABLES n, call, w, hist, seen, todo, edges

vars == <<n, call, w, hist, seen, todo, edges>>

\* Largest group parameter explored.
MaxN == 6

\* __init__: assert n >= 2
MinN == 2

\* Value of n while no group exists (self.n not assigned).
Unset == 0

\* Smallest argument given to the constructor.
MinArg == MinN - 3

\* index_set(): the two generator labels (1, 2)
index_set == {1, 2}

\* one(): the empty word
one == <<>>

is_odd(k) == k % 2 = 1

is_even(k) == k % 2 = 0

\* reduced_word[:-1]
DropLast(word) == SubSeq(word, 1, Len(word) - 1)

\* reduced_word[1:]
DropFirst(word) == SubSeq(word, 2, Len(word))

\* Variant of has_right_descent that reads the first letter whatever the side.
has_right_descent_LeftIndex(word, k, i, positive, side) ==
    IF Len(word) = k
    THEN ~positive
    ELSE IF Len(word) = 0
         THEN positive
         ELSE (i = word[1]) = (~positive)

\* Variant of has_right_descent without the branch for the longest element.
has_right_descent_NoLongest(word, k, i, positive, side) ==
    IF Len(word) = 0
    THEN positive
    ELSE (i = word[IF side = "left" THEN 1 ELSE Len(word)]) = (~positive)

\* Variant of has_right_descent answering for the identity as for the
\* longest element.
has_right_descent_IdentityAsLongest(word, k, i, positive, side) ==
    IF Len(word) = k \/ Len(word) = 0
    THEN ~positive
    ELSE (i = word[IF side = "left" THEN 1 ELSE Len(word)]) = (~positive)

\* Variant of has_right_descent whose last branch does not look at positive.
has_right_descent_IgnorePositive(word, k, i, positive, side) ==
    IF Len(word) = k
    THEN ~positive
    ELSE IF Len(word) = 0
         THEN positive
         ELSE i = word[IF side = "left" THEN 1 ELSE Len(word)]

\* Variant of has_right_descent that reads the last letter whatever the side.
has_right_descent_IgnoreSide(word, k, i, positive, side) ==
    IF Len(word) = k
    THEN ~positive
    ELSE IF Len(word) = 0
         THEN positive
         ELSE (i = word[Len(word)]) = (~positive)

\* Element.has_right_descent(i, positive, side) for the element `word` of the
\* group with parameter k.
has_right_descent(word, k, i, positive, side) ==
    IF Len(word) = k
    THEN ~positive
    ELSE IF Len(word) = 0
         THEN positive
         ELSE (i = word[IF side = "left" THEN 1 ELSE Len(word)]) = (~positive)

\* self.has_descent(i) as called by apply_simple_reflection_right: the
\* defaults positive=False, side="right" of has_right_descent.
has_descent(word, k, i) == has_right_descent(word, k, i, FALSE, "right")

\* Variant of apply_simple_reflection_right without the prepend branch.
apply_NoPrepend(word, k, i) ==
    IF Len(word) = k
    THEN IF (i = 1 /\ is_odd(k)) \/ (i = 2 /\ is_even(k))
         THEN DropLast(word)
         ELSE DropFirst(word)
    ELSE IF has_descent(word, k, i)
         THEN DropLast(word)
         ELSE Append(word, i)

\* Variant whose prepend branch is not restricted to words of length n-1.
apply_PrependAnyLength(word, k, i) ==
    IF Len(word) = k
    THEN IF (i = 1 /\ is_odd(k)) \/ (i = 2 /\ is_even(k))
         THEN DropLast(word)
         ELSE DropFirst(word)
    ELSE IF Len(word) > 0 /\ ~has_descent(word, k, i) /\ word[1] = 2
         THEN <<1>> \o word
         ELSE IF has_descent(word, k, i)
              THEN DropLast(word)
              ELSE Append(word, i)

\* Variant with the two slices of the longest-element branch exchanged.
apply_SwappedStrip(word, k, i) ==
    IF Len(word) = k
    THEN IF (i = 1 /\ is_odd(k)) \/ (i = 2 /\ is_even(k))
         THEN DropFirst(word)
         ELSE DropLast(word)
    ELSE IF Len(word) = k - 1 /\ ~has_descent(word, k, i) /\ word[1] = 2
         THEN <<1>> \o word
         ELSE IF has_descent(word, k, i)
              THEN DropLast(word)
              ELSE Append(word, i)

\* Variant whose prepend branch tests reduced_word[0] == 1.
apply_PrependWrongSide(word, k, i) ==
    IF Len(word) = k
    THEN IF (i = 1 /\ is_odd(k)) \/ (i = 2 /\ is_even(k))
         THEN DropLast(word)
         ELSE DropFirst(word)
    ELSE IF Len(word) = k - 1 /\ ~has_descent(word, k, i) /\ word[1] = 1
         THEN <<1>> \o word
         ELSE IF has_descent(word, k, i)
              THEN DropLast(word)
              ELSE Append(word, i)

\* Variant whose prepend branch prepends the letter 2.
apply_PrependTwo(word, k, i) ==
    IF Len(word) = k
    THEN IF (i = 1 /\ is_odd(k)) \/ (i = 2 /\ is_even(k))
         THEN DropLast(word)
         ELSE DropFirst(word)
    ELSE IF Len(word) = k - 1 /\ ~has_descent(word, k, i) /\ word[1] = 2
         THEN <<2>> \o word
         ELSE IF has_descent(word, k, i)
              THEN DropLast(word)
              ELSE Append(word, i)

\* Variant that always drops the last letter of the longest element.
apply_AlwaysDropLast(word, k, i) ==
    IF Len(word) = k
    THEN DropLast(word)
    ELSE IF Len(word) = k - 1 /\ ~has_descent(word, k, i) /\ word[1] = 2
         THEN <<1>> \o word
         ELSE IF has_descent(word, k, i)
              THEN DropLast(word)
              ELSE Append(word, i)

\* Element.apply_simple_reflection_right(i) for the element `word` of the
\* group with parameter k.
apply_simple_reflection_right(word, k, i) ==
    IF Len(word) = k
    THEN IF (i = 1 /\ is_odd(k)) \/ (i = 2 /\ is_even(k))
         THEN DropLast(word)
         ELSE DropFirst(word)
    ELSE IF Len(word) = k - 1 /\ ~has_descent(word, k, i) /\ word[1] = 2
         THEN <<1>> \o word
         ELSE IF has_descent(word, k, i)
              THEN DropLast(word)
              ELSE Append(word, i)

----------------------------------------------------------------------------
(* The group and one current element, moved by right multiplication.       *)

\* Applications recorded since the last one(); caps the history.
HistCap == 2 * n

Init ==
    /\ n \in MinN..MaxN
    /\ call = <<n, "ok">>
    /\ w = one
    /\ hist = <<>>
    /\ seen = {one}
    /\ todo = {one}
    /\ edges = {}

\* w := w * s_i
Generator(i) ==
    /\ Len(hist) < HistCap
    /\ w' = apply_simple_reflection_right(w, n, i)
    /\ hist' = Append(hist, i)
    /\ UNCHANGED <<n, call, seen, todo, edges>>

\* w := G.one()
One ==
    /\ hist # <<>>
    /\ w' = one
    /\ hist' = <<>>
    /\ UNCHANGED <<n, call, seen, todo, edges>>

Next ==
    \/ \E i \in index_set : Generator(i)
    \/ One

Spec == Init /\ [][Next]_vars

----------------------------------------------------------------------------
(* Closure of the identity under right multiplication by both generators,  *)
(* with the labelled edges (v, v * s_i, i) of the Cayley graph.            *)

Explore(v) ==
    /\ v \in todo
    /\ LET succ == {apply_simple_reflection_right(v, n, i) : i \in index_set}
       IN /\ seen' = seen \cup succ
          /\ todo' = (todo \ {v}) \cup (succ \ seen)
          /\ edges' = edges \cup
                {<<v, apply_simple_reflection_right(v, n, i), i>> : i \in index_set}
    /\ UNCHANGED <<n, call, w, hist>>

NextClosure == \E v \in todo : Explore(v)

SpecClosure == Init /\ [][NextClosure]_vars

----------------------------------------------------------------------------
(* The same walk started from any canonical word of the group.             *)

\* A word of letters 1, 2 with no two adjacent letters equal, of length at
\* most k, starting with 1 when its length is k.
IsCanonical(word, k) ==
    /\ Len(word) \in 0..k
    /\ \A j \in 1..Len(word) : word[j] \in index_set
    /\ \A j \in 1..(Len(word) - 1) : word[j] # word[j + 1]
    /\ Len(word) = k => word[1] = 1

CanonicalWords(k) ==
    {s \in UNION {[1..l -> index_set] : l \in 0..k} : IsCanonical(s, k)}

InitCanon ==
    /\ n \in MinN..MaxN
    /\ call = <<n, "ok">>
    /\ w \in CanonicalWords(n)
    /\ hist = <<>>
    /\ seen = {one}
    /\ todo = {one}
    /\ edges = {}

SpecCanon == InitCanon /\ [][Next]_vars

----------------------------------------------------------------------------
(* Construction of the group, followed by the walk.                        *)

\* Variant of Create__init__ that accepts every argument from MinN - 1 on.
Create__init__OffByOne(k) ==
    /\ call = <<>>
    /\ IF k >= MinN - 1
       THEN /\ n' = k
            /\ call' = <<k, "ok">>
       ELSE /\ n' = n
            /\ call' = <<k, "AssertionError">>
    /\ UNCHANGED <<w, hist, seen, todo, edges>>

\* DihedralGroup(k): assert k >= 2, then self.n = k.
Create__init__(k) ==
    /\ call = <<>>
    /\ IF k >= MinN
       THEN /\ n' = k
            /\ call' = <<k, "ok">>
       ELSE /\ n' = n
            /\ call' = <<k, "AssertionError">>
    /\ UNCHANGED <<w, hist, seen, todo, edges>>

InitCreate ==
    /\ n = Unset
    /\ call = <<>>
    /\ w = one
    /\ hist = <<>>
    /\ seen = {one}
    /\ todo = {one}
    /\ edges = {}

\* The element operations need a group.
NextCreate ==
    \/ \E k \in MinArg..MaxN : Create__init__(k)
    \/ (n # Unset /\ Next)

SpecCreate == InitCreate /\ [][NextCreate]_vars

----------------------------------------------------------------------------
(* Properties.                                                             *)

\* The alternating word of the given length starting with `first`.
AltWord(first, len) == [j \in 1..len |-> IF is_odd(j) THEN first ELSE 3 - first]

\* Every alternating word shorter than k, and the one of length k that
\* starts with 1.
Expected(k) ==
    {AltWord(f, l) : f \in index_set, l \in 0..(k - 1)} \cup {AltWord(1, k)}

ListD5 ==
    { <<>>, <<1>>, <<2>>, <<1, 2>>, <<2, 1>>, <<1, 2, 1>>, <<2, 1, 2>>,
      <<1, 2, 1, 2>>, <<2, 1, 2, 1>>, <<1, 2, 1, 2, 1>> }

\* C1: the closure of the identity under right multiplication by the two
\* generators never leaves the set of alternating words of length < n plus
\* the alternating word of length n starting with 1, and once nothing is
\* left to explore it is exactly that set and has 2n elements; for n = 5 it
\* is the list of the doctest.
C1_ReachableSet ==
    /\ seen \subseteq Expected(n)
    /\ todo = {} => /\ seen = Expected(n)
                    /\ Cardinality(seen) = 2 * n
    /\ (todo = {} /\ n = 5) => seen = ListD5

C1_Witness == todo = {} /\ n = 5 /\ Cardinality(seen) = 10 /\ edges # {}

\* C2: multiplying twice by the same generator gives the element back, for
\* every element reached from the identity and both generators.
C2_Involution ==
    \A i \in index_set :
        apply_simple_reflection_right(
            apply_simple_reflection_right(w, n, i), n, i) = w

\* The longest element of a group with even n, reached by the walk.
C2_Witness == Len(w) = n /\ is_even(n) /\ Len(hist) = n

\* C3 as stated: applied to a word of length n, the generator i drops the
\* first letter if (i = 1 and n odd) or (i = 2 and n even), and the last
\* letter otherwise.
C3_Original ==
    [][(Len(w) = n /\ Len(hist') = Len(hist) + 1) =>
         LET i == hist'[Len(hist')]
         IN w' = IF (i = 1 /\ is_odd(n)) \/ (i = 2 /\ is_even(n))
                 THEN DropFirst(w)
                 ELSE DropLast(w)]_vars

\* C3 amended: applied to a word of length n, the generator i drops the LAST
\* letter if (i = 1 and n odd) or (i = 2 and n even), and the FIRST letter
\* otherwise.
C3_Amended ==
    [][(Len(w) = n /\ Len(hist') = Len(hist) + 1) =>
         LET i == hist'[Len(hist')]
         IN w' = IF (i = 1 /\ is_odd(n)) \/ (i = 2 /\ is_even(n))
                 THEN DropLast(w)
                 ELSE DropFirst(w)]_vars

\* n + 1 generators applied and a word of length n - 1: the last one was
\* applied to the longest element.
C3_Witness == Len(hist) = n + 1 /\ Len(w) = n - 1

\* C4: a reached word of length n is the alternating word starting with 1,
\* and a reached word of length n - 1 multiplied by its non-descent
\* generator gives that word.
C4_LongestUnique ==
    /\ Len(w) = n => w = AltWord(1, n)
    /\ Len(w) = n - 1 =>
         \A i \in index_set :
            ~has_descent(w, n, i) =>
                apply_simple_reflection_right(w, n, i) = AltWord(1, n)

\* The longest element reached in n steps along the words starting with 2.
C4_Witness == Len(hist) = n /\ hist[1] = 2 /\ Len(w) = n /\ w[1] = 1

\* C5: from any canonical word, the current word is canonical and so is its
\* product with either generator.
C5_CanonicalPreserved ==
    /\ IsCanonical(w, n)
    /\ \A i \in index_set :
          IsCanonical(apply_simple_reflection_right(w, n, i), n)

\* One generator applied to a canonical word of length n - 1, giving the
\* longest element.
C5_Witness == Len(hist) = 1 /\ Len(w) = n /\ n > MinN

\* The generators 1, 2, 1, 2, ... in this order.
IsAlternating12(h) == \A j \in 1..Len(h) : h[j] = IF is_odd(j) THEN 1 ELSE 2

\* C6: after k rounds of "1 then 2" from the identity, 0 < k <= n, the
\* element is the identity exactly when k = n.
C6_CoxeterRelation ==
    (IsAlternating12(hist) /\ Len(hist) > 0 /\ is_even(Len(hist))) =>
        (w = one <=> Len(hist) = 2 * n)

\* (s1 s2)^6 in the group with n = 6.
C6_Witness == IsAlternating12(hist) /\ Len(hist) = 2 * n /\ w = one /\ n = 6

\* The generators that are right descents of the word.
RightDescents(word, k) ==
    {i \in index_set : has_right_descent(word, k, i, FALSE, "right")}

\* C7: the identity has no right descent, the longest element has both, and
\* a reached element of length strictly between 0 and n has exactly one, its
\* last letter.
C7_DescentCounts ==
    /\ Len(w) = 0 => RightDescents(w, n) = {}
    /\ Len(w) = n => RightDescents(w, n) = index_set
    /\ (0 < Len(w) /\ Len(w) < n) => RightDescents(w, n) = {w[Len(w)]}

\* The longest element of the group with n = 6, reached along the words
\* starting with 1.
C7_Witness == n = 6 /\ Len(w) = n /\ hist = w

\* C8: a generator is a right descent exactly when multiplying by it shortens
\* the word by one, and is not one exactly when it lengthens the word by one.
C8_DescentIffShorter ==
    \A i \in index_set :
        LET r == apply_simple_reflection_right(w, n, i)
            d == has_right_descent(w, n, i, FALSE, "right")
        IN /\ d <=> Len(r) = Len(w) - 1
           /\ ~d <=> Len(r) = Len(w) + 1

\* A word of length n - 1 starting with 2, whose non-descent generator leads
\* to the longest element by the prepend branch.
C8_Witness == Len(w) = n - 1 /\ w[1] = 2 /\ Len(hist) > n

\* The product of `start` by the generators of `word`, applied in order.
RECURSIVE ApplyWord(_, _, _)
ApplyWord(start, word, k) ==
    IF word = <<>>
    THEN start
    ELSE ApplyWord(apply_simple_reflection_right(start, k, Head(word)),
                   Tail(word), k)

\* C9: applying the letters of a reached word in order to the identity gives
\* the word back, and no word is reached from the identity by fewer generator
\* applications than its length.
C9_ReducedWord ==
    /\ ApplyWord(one, w, n) = w
    /\ Len(hist) >= Len(w)

\* The longest element reached along the words starting with 2: its stored
\* word is not the sequence of generators that were applied.
C9_Witness == Len(w) = n /\ Len(hist) = n /\ hist # w

\* The element after j steps of the walk 1, 2, 1, 2, ... from the identity.
RECURSIVE Walk12(_, _)
Walk12(j, k) ==
    IF j = 0
    THEN one
    ELSE apply_simple_reflection_right(
             Walk12(j - 1, k), k, IF is_odd(j) THEN 1 ELSE 2)

EdgesD3 ==
    { << <<>>, <<1>>, 1 >>,
      << <<>>, <<2>>, 2 >>,
      << <<1>>, <<>>, 1 >>,
      << <<1>>, <<1, 2>>, 2 >>,
      << <<1, 2>>, <<1>>, 2 >>,
      << <<1, 2>>, <<1, 2, 1>>, 1 >>,
      << <<1, 2, 1>>, <<1, 2>>, 1 >>,
      << <<1, 2, 1>>, <<2, 1>>, 2 >>,
      << <<2>>, <<>>, 2 >>,
      << <<2>>, <<2, 1>>, 1 >>,
      << <<2, 1>>, <<1, 2, 1>>, 2 >>,
      << <<2, 1>>, <<2>>, 1 >> }

\* C10: once the closure is complete, the two neighbours of every element
\* differ from each other and from the element, every edge has the reverse
\* edge with the same label, and the walk 1, 2, 1, 2, ... from the identity
\* passes through all 2n elements once and is back after 2n steps; for n = 3
\* the edges are those of the doctest.
C10_CayleyCycle ==
    todo = {} =>
        /\ \A v \in seen :
              /\ apply_simple_reflection_right(v, n, 1) # v
              /\ apply_simple_reflection_right(v, n, 2) # v
              /\ apply_simple_reflection_right(v, n, 1) #
                    apply_simple_reflection_right(v, n, 2)
        /\ \A e \in edges : <<e[2], e[1], e[3]>> \in edges
        /\ Cardinality(edges) = 4 * n
        /\ {Walk12(j, n) : j \in 0..(2 * n - 1)} = seen
        /\ Cardinality(seen) = 2 * n
        /\ Walk12(2 * n, n) = one
        /\ n = 3 => edges = EdgesD3

C10_Witness == todo = {} /\ n = 3 /\ Cardinality(edges) = 12

\* side of has_right_descent
Sides == {"left", "right"}

\* C11: for every canonical word, generator and side, the test with
\* positive=True is the negation of the test with positive=False.
C11_AscentNegatesDescent ==
    \A i \in index_set : \A side \in Sides :
        has_right_descent(w, n, i, TRUE, side) =
            ~has_right_descent(w, n, i, FALSE, side)

\* A word strictly between the identity and the longest element that starts
\* with 2 and ends with 1: generator 1 is an ascent on the left only.
C11_Witness ==
    /\ 0 < Len(w) /\ Len(w) < n
    /\ hist # <<>>
    /\ has_right_descent(w, n, 1, TRUE, "left")
    /\ ~has_right_descent(w, n, 1, TRUE, "right")

\* C12: a constructor call with an argument below 2 raises and leaves no
\* group; a call with an argument of at least 2 stores it as n; and once a
\* group exists no step changes its n.
C12_Construction ==
    /\ [](/\ call = <<>> => n = Unset
          /\ (call # <<>> /\ call[1] < 2) =>
                (call[2] = "AssertionError" /\ n = Unset)
          /\ (call # <<>> /\ call[1] >= 2) => (call[2] = "ok" /\ n = call[1]))
    /\ [][n # Unset => n' = n]_vars

\* The constructor called with 1.
C12_Witness == call = <<1, "AssertionError">> /\ n = Unset /\ hist = <<>>

\* The e-th power of the element v: the identity multiplied e times by v,
\* each product applying the letters of v in order.
RECURSIVE Power(_, _, _)
Power(v, e, k) ==
    IF e = 0
    THEN one
    ELSE ApplyWord(Power(v, e - 1, k), v, k)

\* (i, i^2, i^5) for i in D5
PowersD5 ==
    { << <<>>, <<>>, <<>> >>,
      << <<1>>, <<>>, <<1>> >>,
      << <<2>>, <<>>, <<2>> >>,
      << <<1, 2>>, <<1, 2, 1, 2>>, <<>> >>,
      << <<2, 1>>, <<2, 1, 2, 1>>, <<>> >>,
      << <<1, 2, 1>>, <<>>, <<1, 2, 1>> >>,
      << <<2, 1, 2>>, <<>>, <<2, 1, 2>> >>,
      << <<1, 2, 1, 2>>, <<2, 1>>, <<>> >>,
      << <<2, 1, 2, 1>>, <<1, 2>>, <<>> >>,
      << <<1, 2, 1, 2, 1>>, <<>>, <<1, 2, 1, 2, 1>> >> }

\* C13: a reached element whose word has odd length squares to the identity,
\* one whose word has even length has its n-th power equal to the identity,
\* and for n = 5 the square and the fifth power are those of the doctest.
C13_Powers ==
    /\ is_odd(Len(w)) => Power(w, 2, n) = one
    /\ is_even(Len(w)) => Power(w, n, n) = one
    /\ n = 5 => <<w, Power(w, 2, n), Power(w, 5, n)>> \in PowersD5

\* The element (2, 1, 2, 1) of D5, whose square passes through the longest
\* element.
C13_Witness ==
    /\ n = 5
    /\ w = <<2, 1, 2, 1>>
    /\ Power(w, 2, n) = <<1, 2>>
    /\ hist # <<>>

\* The letters of the word in reverse order.
Reverse(word) == [j \in 1..Len(word) |-> word[Len(word) + 1 - j]]

\* The element reached from the identity by the letters of the word in
\* reverse order.
Inverse(word, k) == ApplyWord(one, Reverse(word), k)

\* C14: for every reached element and generator, the left-descent test on
\* the element equals the right-descent test on the element reached from the
\* identity by its letters in reverse order, which is its inverse.
C14_LeftMirrorsRight ==
    /\ ApplyWord(w, Reverse(w), n) = one
    /\ \A i \in index_set :
          has_right_descent(w, n, i, FALSE, "left") =
              has_right_descent(Inverse(w, n), n, i, FALSE, "right")

\* A reached word of even length below n: its first letter is a left descent
\* and not a right descent.
C14_Witness ==
    /\ 0 < Len(w) /\ Len(w) < n /\ is_even(Len(w))
    /\ Len(hist) > Len(w)
    /\ has_right_descent(w, n, w[1], FALSE, "left")
    /\ ~has_right_descent(w, n, w[1], FALSE, "right")

====
